---- MODULE Spec2Model ----
(***************************************************************************)
(* Crazy Eights (human against computer): the game state machine of the    *)
(* App component.  The state is the React state of App: gameState,         *)
(* pendingEight and error, and the timer of the effect that runs the       *)
(* computer's turn.  lastAction is display text only and is left           *)
(* out.  Every handler is one atomic action: React batches the setState    *)
(* calls of one handler into one new snapshot.  A handler may be called in *)
(* any state: its guards are the early returns of its code, not the        *)
(* conditions under which the page shows its button.  Cards are identified *)
(* by suit and rank (createDeck makes one card per suit and rank).  The    *)
(* retry button of the error screen is not modelled: initGame cannot fail  *)
(* on the decks used here, so the error screen is never shown.             *)
(***************************************************************************)
EXTENDS Integers, Sequences, FiniteSets, TLC

VARIABLES gameState, pendingEight, error,
          timer    \* the snapshot the pending timeout closes over, or NullState

vars == <<gameState, pendingEight, error, timer>>

(***************************************************************************)
(* Card vocabulary (types.ts).                                             *)
(***************************************************************************)
SUITS == <<"hearts", "diamonds", "clubs", "spades">>

RANKS == <<"A", "2", "3", "4", "5", "6", "7", "8", "9", "10", "J", "Q", "K">>

\* Number of cards dealt to each side by initGame.
HandSize == 8

\* Bound of the scaled-down game of Spec: the deck is the first NumCards
\* cards of CardList.
NumCards == 5

\* Cards dealt to each side in the scaled-down game: as with 8 of 52, the
\* cards left after dealing outnumber the 8s of the deck.
DealSize == (NumCards - 3) \div 2

\* Bound of SpecAnyCard: how many cards the zones may hold beyond the deck.
MaxExtraCards == 1

\* Bound of SpecFull: the four 8s of the shuffled 52-card deck lie among its
\* first MaxEightPos cards.
MaxEightPos == 22

Card(s, r) == [suit |-> s, rank |-> r]

\* null, for pendingEight
NoCard == Card("none", "none")

\* The 52 cards, suit by suit
AllCards ==
  [k \in 1..(Len(SUITS) * Len(RANKS)) |->
     Card(SUITS[((k - 1) \div Len(RANKS)) + 1], RANKS[((k - 1) % Len(RANKS)) + 1])]

FullDeck == {AllCards[k] : k \in DOMAIN AllCards}

\* Cards of the scaled-down deck, in the order they are added as NumCards grows.
CardList ==
  <<Card("hearts", "7"), Card("hearts", "8"), Card("diamonds", "7"),
    Card("diamonds", "8"), Card("hearts", "9"), Card("diamonds", "9"),
    Card("clubs", "8"), Card("clubs", "7"), Card("clubs", "9")>>

SmallDeck == {CardList[i] : i \in 1..NumCards}

(***************************************************************************)
(* Sequence helpers: the Array methods the handlers use.                   *)
(***************************************************************************)
Range(s) == {s[i] : i \in 1..Len(s)}

\* arr.filter(c => c.id !== card.id)
RECURSIVE Without(_, _)
Without(s, c) ==
  IF s = <<>> THEN <<>>
  ELSE IF Head(s) = c THEN Without(Tail(s), c)
       ELSE <<Head(s)>> \o Without(Tail(s), c)

\* arr.pop(): the array without its last element
Front(s) == SubSeq(s, 1, Len(s) - 1)

\* arr.splice(i, 1) on a 1-based index: the array without element i
RemoveAt(s, i) == SubSeq(s, 1, i - 1) \o SubSeq(s, i + 1, Len(s))

RECURSIVE Perms(_)
Perms(S) ==
  IF S = {} THEN {<<>>}
  ELSE UNION {{<<c>> \o p : p \in Perms(S \ {c})} : c \in S}

\* createDeck() of the scaled-down deck: every order of its cards
Shuffles == Perms(SmallDeck)

IsEight(c) == c.rank = "8"

NotEight(c) == c.rank # "8"

\* The 52-card deck in the order of AllCards, but with its four 8s at the
\* positions P
Eights == SelectSeq(AllCards, IsEight)

NonEights == SelectSeq(AllCards, NotEight)

deckWithEightsAt(P) ==
  [i \in 1..Len(AllCards) |->
     IF i \in P THEN Eights[Cardinality({p \in P : p <= i})]
     ELSE NonEights[i - Cardinality({p \in P : p < i})]]

\* createDeck() of the 52-card deck: the orders that differ in where the 8s
\* are (what initGame's scan depends on)
FullShuffles ==
  {deckWithEightsAt({a, b, c, d}) :
     <<a, b, c, d>> \in {q \in (1..MaxEightPos) \X (1..MaxEightPos)
                                  \X (1..MaxEightPos) \X (1..MaxEightPos) :
                            q[1] < q[2] /\ q[2] < q[3] /\ q[3] < q[4]}}

(***************************************************************************)
(* Rules.                                                                  *)
(***************************************************************************)
isValidMove(card, currentSuit, currentRank) ==
  \/ card.rank = "8"
  \/ card.suit = currentSuit
  \/ card.rank = currentRank

checkWinner(state) ==
  IF Len(state.playerHand) = 0 THEN "player"
  ELSE IF Len(state.aiHand) = 0 THEN "ai"
  ELSE "null"

\* useState<GameState | null>(null)
NullState ==
  [deck |-> <<>>, discardPile |-> <<>>, playerHand |-> <<>>, aiHand |-> <<>>,
   currentSuit |-> "none", currentRank |-> "none",
   status |-> "null", winner |-> "null"]

(***************************************************************************)
(* initGame                                                                *)
(***************************************************************************)
\* The while loop: the first (1-based) index from i on whose card is not an 8,
\* or Len(d) + 1 when there is none.
\* Mutant of firstDiscardIndex: the scan does not skip 8s.
firstDiscardIndexNoSkip(d, i) == i

RECURSIVE firstDiscardIndex(_, _)
firstDiscardIndex(d, i) ==
  IF i <= Len(d) /\ d[i].rank = "8" THEN firstDiscardIndex(d, i + 1) ELSE i

\* The state initGame sets from the shuffled deck d0, dealing n cards a side.
dealt(d0, n) ==
  LET playerHand == SubSeq(d0, 1, n)
      aiHand     == SubSeq(d0, n + 1, 2 * n)
      deck       == SubSeq(d0, 2 * n + 1, Len(d0))
      k          == firstDiscardIndex(deck, 1)
  IN  [deck |-> RemoveAt(deck, k), discardPile |-> <<deck[k]>>,
       playerHand |-> playerHand, aiHand |-> aiHand,
       currentSuit |-> deck[k].suit, currentRank |-> deck[k].rank,
       status |-> "player_turn", winner |-> "null"]

\* initGame throws when no non-8 card is left after dealing.
setupFails(d0, n) ==
  firstDiscardIndex(SubSeq(d0, 2 * n + 1, Len(d0)), 1) > Len(d0) - 2 * n

initGame(d0, n) ==
  IF setupFails(d0, n)
  THEN /\ error' = TRUE
       /\ UNCHANGED <<gameState, pendingEight>>
  ELSE /\ gameState' = dealt(d0, n)
       /\ UNCHANGED <<pendingEight, error>>

(***************************************************************************)
(* handleDraw                                                              *)
(***************************************************************************)
\* Mutant of handleDraw: with an empty deck the cards under the top discard
\* become the deck before the turn passes.
handleDrawRecycle ==
  IF gameState.status # "player_turn"
  THEN UNCHANGED vars
  ELSE /\ UNCHANGED <<pendingEight, error>>
       /\ IF Len(gameState.deck) = 0
          THEN gameState' = [gameState EXCEPT
                               !.deck = Tail(gameState.discardPile),
                               !.discardPile = <<Head(gameState.discardPile)>>,
                               !.status = "ai_turn"]
          ELSE gameState' =
                 [gameState EXCEPT
                    !.deck = Front(gameState.deck),
                    !.playerHand = Append(gameState.playerHand,
                                          gameState.deck[Len(gameState.deck)]),
                    !.status =
                      IF isValidMove(gameState.deck[Len(gameState.deck)],
                                     gameState.currentSuit, gameState.currentRank)
                      THEN "player_turn" ELSE "ai_turn"]

\* Mutant of handleDraw: the turn always passes after a draw.
handleDrawAlwaysPass ==
  IF gameState.status # "player_turn"
  THEN UNCHANGED vars
  ELSE /\ UNCHANGED <<pendingEight, error>>
       /\ IF Len(gameState.deck) = 0
          THEN gameState' = [gameState EXCEPT !.status = "ai_turn"]
          ELSE gameState' =
                 [gameState EXCEPT
                    !.deck = Front(gameState.deck),
                    !.playerHand = Append(gameState.playerHand,
                                          gameState.deck[Len(gameState.deck)]),
                    !.status = "ai_turn"]

handleDraw ==
  IF gameState.status # "player_turn"
  THEN UNCHANGED vars
  ELSE /\ UNCHANGED <<pendingEight, error>>
       /\ IF Len(gameState.deck) = 0
          THEN gameState' = [gameState EXCEPT !.status = "ai_turn"]
          ELSE LET drawnCard    == gameState.deck[Len(gameState.deck)]
                   canPlayDrawn == isValidMove(drawnCard, gameState.currentSuit,
                                               gameState.currentRank)
               IN  gameState' =
                     [gameState EXCEPT
                        !.deck = Front(gameState.deck),
                        !.playerHand = Append(gameState.playerHand, drawnCard),
                        !.status = IF canPlayDrawn THEN "player_turn" ELSE "ai_turn"]

(***************************************************************************)
(* handlePlayCard                                                          *)
(***************************************************************************)
\* The else branch: checkWinner on the state with the card played.
withWinner(newState) ==
  IF checkWinner(newState) # "null"
  THEN [newState EXCEPT !.status = "game_over", !.winner = checkWinner(newState)]
  ELSE newState

\* Mutant of handlePlayCard: the winner is also checked after an 8.
handlePlayCardWinOnEight(card) ==
  IF \/ gameState.status # "player_turn"
     \/ ~isValidMove(card, gameState.currentSuit, gameState.currentRank)
  THEN UNCHANGED vars
  ELSE /\ error' = error
       /\ pendingEight' = IF card.rank = "8" THEN card ELSE pendingEight
       /\ gameState' = withWinner(
                         [gameState EXCEPT
                            !.playerHand = Without(gameState.playerHand, card),
                            !.discardPile = <<card>> \o gameState.discardPile,
                            !.currentSuit = IF card.rank = "8" THEN @ ELSE card.suit,
                            !.currentRank = IF card.rank = "8" THEN @ ELSE card.rank,
                            !.status = IF card.rank = "8" THEN "selecting_suit"
                                       ELSE "ai_turn"])

\* Mutant of handlePlayCard: the winner is not checked after a non-8 card.
handlePlayCardNoWinner(card) ==
  IF \/ gameState.status # "player_turn"
     \/ ~isValidMove(card, gameState.currentSuit, gameState.currentRank)
  THEN UNCHANGED vars
  ELSE /\ error' = error
       /\ pendingEight' = IF card.rank = "8" THEN card ELSE pendingEight
       /\ gameState' = [gameState EXCEPT
                          !.playerHand = Without(gameState.playerHand, card),
                          !.discardPile = <<card>> \o gameState.discardPile,
                          !.currentSuit = IF card.rank = "8" THEN @ ELSE card.suit,
                          !.currentRank = IF card.rank = "8" THEN @ ELSE card.rank,
                          !.status = IF card.rank = "8" THEN "selecting_suit"
                                     ELSE "ai_turn"]

\* Mutant of handlePlayCard: an 8 is played without being kept as pending.
handlePlayCardNoPending(card) ==
  IF \/ gameState.status # "player_turn"
     \/ ~isValidMove(card, gameState.currentSuit, gameState.currentRank)
  THEN UNCHANGED vars
  ELSE LET newHand        == Without(gameState.playerHand, card)
           newDiscardPile == <<card>> \o gameState.discardPile
       IN  /\ error' = error
           /\ IF card.rank = "8"
              THEN /\ pendingEight' = pendingEight
                   /\ gameState' = [gameState EXCEPT
                                      !.playerHand = newHand,
                                      !.discardPile = newDiscardPile,
                                      !.status = "selecting_suit"]
              ELSE /\ pendingEight' = pendingEight
                   /\ gameState' = withWinner(
                                     [gameState EXCEPT
                                        !.playerHand = newHand,
                                        !.discardPile = newDiscardPile,
                                        !.currentSuit = card.suit,
                                        !.currentRank = card.rank,
                                        !.status = "ai_turn"])

handlePlayCard(card) ==
  IF \/ gameState.status # "player_turn"
     \/ ~isValidMove(card, gameState.currentSuit, gameState.currentRank)
  THEN UNCHANGED vars
  ELSE LET newHand        == Without(gameState.playerHand, card)
           newDiscardPile == <<card>> \o gameState.discardPile
       IN  /\ error' = error
           /\ IF card.rank = "8"
              THEN /\ pendingEight' = card
                   /\ gameState' = [gameState EXCEPT
                                      !.playerHand = newHand,
                                      !.discardPile = newDiscardPile,
                                      !.status = "selecting_suit"]
              ELSE /\ pendingEight' = pendingEight
                   /\ gameState' = withWinner(
                                     [gameState EXCEPT
                                        !.playerHand = newHand,
                                        !.discardPile = newDiscardPile,
                                        !.currentSuit = card.suit,
                                        !.currentRank = card.rank,
                                        !.status = "ai_turn"])

(***************************************************************************)
(* handleSuitSelection                                                     *)
(***************************************************************************)
\* Mutant of handleSuitSelection: currentRank is left as it was.
handleSuitSelectionKeepRank(suit) ==
  IF gameState.status = "null" \/ pendingEight = NoCard
  THEN UNCHANGED vars
  ELSE /\ gameState' = [gameState EXCEPT
                          !.currentSuit = suit,
                          !.status = "ai_turn"]
       /\ pendingEight' = NoCard
       /\ error' = error

handleSuitSelection(suit) ==
  IF gameState.status = "null" \/ pendingEight = NoCard
  THEN UNCHANGED vars
  ELSE /\ gameState' = [gameState EXCEPT
                          !.currentSuit = suit,
                          !.currentRank = "8",
                          !.status = "ai_turn"]
       /\ pendingEight' = NoCard
       /\ error' = error

(***************************************************************************)
(* The computer's turn: the timer callback of the effect on gameState.     *)
(***************************************************************************)
\* arr.filter(pred) for the playable cards
RECURSIVE playableOf(_, _, _)
playableOf(hand, currentSuit, currentRank) ==
  IF hand = <<>> THEN <<>>
  ELSE (IF isValidMove(Head(hand), currentSuit, currentRank)
        THEN <<Head(hand)>> ELSE <<>>)
       \o playableOf(Tail(hand), currentSuit, currentRank)

\* playable.find(c => c.rank !== '8') || playable[0]
RECURSIVE findNonEight(_)
findNonEight(playable) ==
  IF playable = <<>> THEN NoCard
  ELSE IF Head(playable).rank # "8" THEN Head(playable)
       ELSE findNonEight(Tail(playable))

\* Mutant of cardToPlay: the first playable card, 8 or not.
cardToPlayFirst(playable) == playable[1]

cardToPlay(playable) ==
  IF findNonEight(playable) # NoCard THEN findNonEight(playable) ELSE playable[1]

\* Object.keys(suitCounts): the suits of the hand in the order first met
RECURSIVE suitKeys(_, _)
suitKeys(hand, seen) ==
  IF hand = <<>> THEN seen
  ELSE suitKeys(Tail(hand),
                IF Head(hand).suit \in Range(seen) THEN seen
                ELSE Append(seen, Head(hand).suit))

\* suitCounts[s]
suitCount(hand, s) == Cardinality({i \in 1..Len(hand) : hand[i].suit = s})

\* keys.sort((a, b) => suitCounts[b] - suitCounts[a]): a stable sort, larger
\* counts first (insertion of each key behind the keys that are not smaller)
RECURSIVE insertByCount(_, _, _)
insertByCount(sorted, k, hand) ==
  IF sorted = <<>> THEN <<k>>
  ELSE IF suitCount(hand, Head(sorted)) >= suitCount(hand, k)
       THEN <<Head(sorted)>> \o insertByCount(Tail(sorted), k, hand)
       ELSE <<k>> \o sorted

RECURSIVE sortByCount(_, _, _)
sortByCount(keys, sorted, hand) ==
  IF keys = <<>> THEN sorted
  ELSE sortByCount(Tail(keys), insertByCount(sorted, Head(keys), hand), hand)

\* Mutant of nextSuitOf: among the suits of highest count, the one met last.
nextSuitOfLastMet(newHand) ==
  LET keys == suitKeys(newHand, <<>>)
      most(i) == \A j \in 1..Len(keys) :
                   suitCount(newHand, keys[j]) <= suitCount(newHand, keys[i])
  IN  IF keys = <<>> THEN "hearts"
      ELSE keys[CHOOSE i \in 1..Len(keys) :
                  most(i) /\ \A j \in (i + 1)..Len(keys) : ~most(j)]

\* sorted[0] || 'hearts'
nextSuitOf(newHand) ==
  LET sorted == sortByCount(suitKeys(newHand, <<>>), <<>>, newHand)
  IN  IF sorted = <<>> THEN "hearts" ELSE sorted[1]

\* Mutant of aiTurn: the turn always passes to the player after a draw.
aiTurnDrawPasses(snap) ==
  /\ UNCHANGED <<pendingEight, error>>
  /\ LET aiHand   == snap.aiHand
         deck     == snap.deck
         playable == playableOf(aiHand, snap.currentSuit, snap.currentRank)
     IN  IF Len(playable) > 0
         THEN LET c       == cardToPlay(playable)
                  newHand == Without(aiHand, c)
              IN  gameState' = withWinner(
                    [snap EXCEPT
                       !.aiHand = newHand,
                       !.discardPile = <<c>> \o snap.discardPile,
                       !.currentSuit = IF c.rank = "8" THEN nextSuitOf(newHand)
                                       ELSE c.suit,
                       !.currentRank = c.rank,
                       !.status = "player_turn"])
         ELSE IF Len(deck) > 0
              THEN LET drawn == deck[Len(deck)]
                   IN  gameState' =
                         [snap EXCEPT
                            !.deck = Front(deck),
                            !.aiHand = Append(aiHand, drawn),
                            !.status = "player_turn"]
              ELSE gameState' = [snap EXCEPT !.status = "player_turn"]

\* The callback of setTimeout; snap is the gameState of the render whose
\* effect set the timer.
aiTurn(snap) ==
  /\ UNCHANGED <<pendingEight, error>>
  /\ LET aiHand   == snap.aiHand
         deck     == snap.deck
         playable == playableOf(aiHand, snap.currentSuit, snap.currentRank)
     IN  IF Len(playable) > 0
         THEN LET c       == cardToPlay(playable)
                  newHand == Without(aiHand, c)
              IN  gameState' = withWinner(
                    [snap EXCEPT
                       !.aiHand = newHand,
                       !.discardPile = <<c>> \o snap.discardPile,
                       !.currentSuit = IF c.rank = "8" THEN nextSuitOf(newHand)
                                       ELSE c.suit,
                       !.currentRank = c.rank,
                       !.status = "player_turn"])
         ELSE IF Len(deck) > 0
              THEN LET drawn == deck[Len(deck)]
                   IN  gameState' =
                         [snap EXCEPT
                            !.deck = Front(deck),
                            !.aiHand = Append(aiHand, drawn),
                            !.status = IF isValidMove(drawn, snap.currentSuit,
                                                      snap.currentRank)
                                       THEN "ai_turn" ELSE "player_turn"]
              ELSE gameState' = [snap EXCEPT !.status = "player_turn"]

\* Mutant of runEffect: no cleanup, a timeout stays pending until the next
\* one is set.
runEffectNoCleanup ==
  timer' = IF gameState' = gameState THEN timer
           ELSE IF gameState'.status = "ai_turn" THEN gameState'
           ELSE timer

\* useEffect(..., [gameState]): when a handler has set gameState, the cleanup
\* clears the pending timeout and the effect sets a new one if the new
\* status is ai_turn; a handler that returns early leaves the timeout alone.
runEffect ==
  timer' = IF gameState' = gameState THEN timer
           ELSE IF gameState'.status = "ai_turn" THEN gameState'
           ELSE NullState

(***************************************************************************)
(* The specification.                                                      *)
(***************************************************************************)
Init ==
  /\ gameState = NullState
  /\ pendingEight = NoCard
  /\ error = FALSE
  /\ timer = NullState

\* The mount effect and the restart buttons.
InitGame == (\E d \in Shuffles : initGame(d, DealSize)) /\ runEffect

Draw == handleDraw /\ runEffect

\* onClick of a card of the hand
Play == (\E card \in Range(gameState.playerHand) : handlePlayCard(card)) /\ runEffect

\* The four buttons of SuitSelector
ChooseSuit == (\E suit \in Range(SUITS) : handleSuitSelection(suit)) /\ runEffect

\* The pending timeout fires.
AiTurn == timer # NullState /\ aiTurn(timer) /\ runEffect

Next == InitGame \/ Draw \/ Play \/ ChooseSuit \/ AiTurn

Spec == Init /\ [][Next]_vars

(***************************************************************************)
(* SpecAnyCard: handlePlayCard is also called with cards that are not in   *)
(* the player's hand.                                                      *)
(***************************************************************************)
AllZones(state) ==
  state.deck \o state.discardPile \o state.playerHand \o state.aiHand

PlayAny ==
  /\ \E card \in SmallDeck \ Range(gameState.playerHand) :
        /\ Len(AllZones(gameState)) < NumCards + MaxExtraCards
        /\ handlePlayCard(card)
  /\ runEffect

NextAnyCard == Next \/ PlayAny

SpecAnyCard == Init /\ [][NextAnyCard]_vars

(***************************************************************************)
(* SpecFull: the mount effect, initGame on the 52-card deck, 8 cards a side.*)
(***************************************************************************)
InitGameFull ==
  /\ gameState.status = "null"
  /\ \E d \in FullShuffles : initGame(d, HandSize)
  /\ runEffect

SpecFull == Init /\ [][InitGameFull]_vars

(***************************************************************************)
(* The game with two cards dealt a side out of the same NumCards cards, so *)
(* that the computer can hold an 8 together with other playable cards.     *)
(***************************************************************************)
WideDeal == DealSize + 1

InitGameWide == (\E d \in Shuffles : initGame(d, WideDeal)) /\ runEffect

NextWide == InitGameWide \/ Draw \/ Play \/ ChooseSuit \/ AiTurn

SpecWide == Init /\ [][NextWide]_vars

(***************************************************************************)
(* The computer's turn on every hand of up to MaxAiHand cards of CardList: *)
(* the top discard is a non-8 card outside the hand, the player holds the  *)
(* first of the other cards and the deck is the rest.                      *)
(***************************************************************************)
MaxAiHand == 4

TableCards == Range(CardList)

AiHands ==
  UNION {{h \in [1..n -> TableCards] :
            \A i, j \in 1..n : i # j => h[i] # h[j]} : n \in 1..MaxAiHand}

aiTurnState(h, t) ==
  LET rest == SelectSeq(CardList, LAMBDA c : c \notin Range(h) \cup {t})
  IN  [deck |-> Tail(rest), discardPile |-> <<t>>,
       playerHand |-> <<Head(rest)>>, aiHand |-> h,
       currentSuit |-> t.suit, currentRank |-> t.rank,
       status |-> "ai_turn", winner |-> "null"]

InitAiHands ==
  /\ \E h \in AiHands : \E t \in TableCards \ Range(h) :
       /\ t.rank # "8"
       /\ gameState = aiTurnState(h, t)
  /\ pendingEight = NoCard
  /\ error = FALSE
  /\ timer = gameState

SpecAiHands == InitAiHands /\ [][AiTurn]_vars

(***************************************************************************)
(* Properties.                                                             *)
(***************************************************************************)
Started == gameState.status # "null"

TopDiscard == Head(gameState.discardPile)

\* A step in which the player plays card c of the hand: in player_turn the
\* discard pile grows by c at its head.
PlayerPlayed(c) ==
  /\ gameState.status = "player_turn"
  /\ c \in Range(gameState.playerHand)
  /\ isValidMove(c, gameState.currentSuit, gameState.currentRank)
  /\ gameState'.discardPile = <<c>> \o gameState.discardPile

\* C1: once a game is dealt, deck, discardPile, playerHand and aiHand together
\* hold every card of the deck exactly once.
C1_Conservation ==
  Started =>
    /\ Len(AllZones(gameState)) = NumCards
    /\ Range(AllZones(gameState)) = SmallDeck

\* C2: winner is non-null if and only if exactly one of the two hands is empty.
C2_WinnerIffOneHandEmpty ==
  Started =>
    ((gameState.winner # "null") <=>
       ((gameState.playerHand = <<>>) # (gameState.aiHand = <<>>)))

\* C3: status is game_over if and only if winner is non-null.
C3_GameOverIffWinner ==
  Started => ((gameState.status = "game_over") <=> (gameState.winner # "null"))

\* C4: handlePlayCard(card) changes nothing when status is not player_turn, or
\* the card is not in playerHand, or isValidMove rejects the card.
C4_PlayNoOp ==
  [][\A card \in SmallDeck :
       (/\ handlePlayCard(card)
        /\ \/ gameState.status # "player_turn"
           \/ card \notin Range(gameState.playerHand)
           \/ ~isValidMove(card, gameState.currentSuit, gameState.currentRank))
       => UNCHANGED vars]_vars

\* C5: handleSuitSelection(suit) changes nothing when there is no pending wild
\* card or status is not selecting_suit.
C5_ChooseSuitNoOp ==
  [][\A suit \in Range(SUITS) :
       (/\ handleSuitSelection(suit)
        /\ \/ pendingEight = NoCard
           \/ gameState.status # "selecting_suit")
       => UNCHANGED vars]_vars

\* C6: in game_over, draw, play, chooseSuit and the computer's turn change
\* nothing; only initGame leaves game_over.
C6_GameOverTerminal ==
  [][(gameState.status = "game_over" /\ (Draw \/ Play \/ ChooseSuit \/ AiTurn))
       => UNCHANGED vars]_vars

\* C7: when the player plays a rank-8 card of the hand in player_turn, the
\* status becomes selecting_suit, also when the 8 was the last card held.
C7_EightSelectsSuit ==
  [][\A c \in SmallDeck :
       (PlayerPlayed(c) /\ c.rank = "8")
       => gameState'.status = "selecting_suit"]_vars

\* C7 witness: the player's only card was an 8 and has been played.
C7_Witness ==
  /\ gameState.status = "selecting_suit"
  /\ gameState.playerHand = <<>>
  /\ TopDiscard.rank = "8"
  /\ pendingEight = TopDiscard

\* C8 as stated: whenever the top of the discard pile is a rank-8 card,
\* currentRank is "8" (also while a suit is being selected).
C8_RankEightWheneverTopEight ==
  (Started /\ TopDiscard.rank = "8") => gameState.currentRank = "8"

\* C8 amended: whenever the top of the discard pile is a rank-8 card and the
\* status is not selecting_suit, currentRank is "8".
C8_RankEightOnceSuitChosen ==
  (Started /\ gameState.status # "selecting_suit" /\ TopDiscard.rank = "8")
    => gameState.currentRank = "8"

\* C8 witness: the player's 8 is on top and a suit has been chosen.
C8_Witness ==
  /\ gameState.status = "ai_turn"
  /\ TopDiscard.rank = "8"
  /\ gameState.currentRank = "8"
  /\ Len(gameState.discardPile) = 2
  /\ Len(gameState.aiHand) = DealSize

\* C9: initGame on a 52-card deck never fails and deals 8 cards to each side,
\* one non-8 discard, 35 cards to the deck, with player_turn, no winner, and
\* the discard's suit and rank as the target.
C9_InitialDeal ==
  /\ error = FALSE
  /\ Started =>
       /\ Len(gameState.playerHand) = 8
       /\ Len(gameState.aiHand) = 8
       /\ Len(gameState.discardPile) = 1
       /\ TopDiscard.rank # "8"
       /\ Len(gameState.deck) = 35
       /\ Range(AllZones(gameState)) = FullDeck
       /\ gameState.status = "player_turn"
       /\ gameState.winner = "null"
       /\ gameState.currentSuit = TopDiscard.suit
       /\ gameState.currentRank = TopDiscard.rank

\* C9 witness: a deal whose discard was found behind 8s: the card before it
\* in the deck is an 8 that stayed in the deck.
C9_Witness ==
  /\ Started
  /\ gameState.deck[1].rank = "8"
  /\ gameState.deck[2].rank = "8"
  /\ TopDiscard.rank # "8"

\* C10: when the player plays a non-8 card that was the only card of the
\* hand, the hand is empty, status is game_over, winner is player and the
\* card heads the discard pile.
C10_LastCardWins ==
  [][\A c \in SmallDeck :
       (PlayerPlayed(c) /\ c.rank # "8" /\ gameState.playerHand = <<c>>)
       => /\ gameState'.playerHand = <<>>
          /\ gameState'.status = "game_over"
          /\ gameState'.winner = "player"
          /\ Head(gameState'.discardPile) = c]_vars

\* C10 witness: the player went out with a non-8 card on the first move.
C10_Witness ==
  /\ gameState.status = "game_over"
  /\ gameState.winner = "player"
  /\ gameState.playerHand = <<>>
  /\ TopDiscard.rank # "8"
  /\ Len(gameState.discardPile) = 2
  /\ Len(gameState.aiHand) = DealSize
  /\ Len(gameState.deck) = NumCards - 2 * DealSize - 1

\* A step in which the computer plays card c of its hand: in ai_turn the
\* discard pile grows by c at its head.
AiPlayed(c) ==
  /\ gameState.status = "ai_turn"
  /\ c \in Range(gameState.aiHand)
  /\ gameState'.discardPile = <<c>> \o gameState.discardPile

\* C11: when the computer plays a card that leaves aiHand empty, the status
\* becomes game_over and the winner is ai.
C11_AiLastCardWins ==
  [][\A c \in SmallDeck :
       (AiPlayed(c) /\ gameState'.aiHand = <<>>)
       => /\ gameState'.status = "game_over"
          /\ gameState'.winner = "ai"]_vars

\* C12: a draw in player_turn with a non-empty deck moves the last card of
\* deck to the end of playerHand, leaves discardPile, aiHand, currentSuit,
\* currentRank and winner unchanged, and keeps player_turn if the drawn card
\* is a valid move against the target, else sets ai_turn.
C12_PlayerDraw ==
  [][(/\ gameState.status = "player_turn"
      /\ Len(gameState.deck) > 0
      /\ handleDraw)
     => LET top == gameState.deck[Len(gameState.deck)]
        IN  /\ gameState'.deck = SubSeq(gameState.deck, 1, Len(gameState.deck) - 1)
            /\ gameState'.playerHand = gameState.playerHand \o <<top>>
            /\ gameState'.discardPile = gameState.discardPile
            /\ gameState'.aiHand = gameState.aiHand
            /\ gameState'.currentSuit = gameState.currentSuit
            /\ gameState'.currentRank = gameState.currentRank
            /\ gameState'.winner = gameState.winner
            /\ gameState'.status =
                 IF \/ top.rank = "8"
                    \/ top.suit = gameState.currentSuit
                    \/ top.rank = gameState.currentRank
                 THEN "player_turn" ELSE "ai_turn"]_vars

\* C12 witness: the player's first move was a draw of a card that can be
\* played, and it is still the player's turn.
C12_Witness ==
  /\ gameState.status = "player_turn"
  /\ Len(gameState.discardPile) = 1
  /\ Len(gameState.playerHand) = DealSize + 1
  /\ Len(gameState.aiHand) = DealSize
  /\ Len(gameState.deck) = NumCards - 2 * DealSize - 2
  /\ isValidMove(gameState.playerHand[DealSize + 1], gameState.currentSuit,
                 gameState.currentRank)

\* C13: starting a new game leaves no carry-over: after every initGame
\* step, issued from any state, there is no pending wild card.
C13_NoCarryOver ==
  [][(\E d \in Shuffles : ~setupFails(d, DealSize) /\ initGame(d, DealSize))
     => pendingEight' = NoCard]_vars

\* C14: when the computer holds a card that is valid against the target, the
\* computer-turn resolution plays exactly one card of its hand, valid against
\* the target; it is the first valid non-8 in hand order if there is one, and
\* an 8 only when no non-8 of the hand is valid.
C14_AiCardChoice ==
  [][(gameState.status = "ai_turn" /\ AiTurn)
     => LET hand == gameState.aiHand
            valid(i) == \/ hand[i].rank = "8"
                        \/ hand[i].suit = gameState.currentSuit
                        \/ hand[i].rank = gameState.currentRank
            validNonEight(i) == valid(i) /\ hand[i].rank # "8"
        IN  (\E i \in 1..Len(hand) : valid(i))
            => \E i \in 1..Len(hand) :
                 /\ valid(i)
                 /\ gameState'.discardPile = <<hand[i]>> \o gameState.discardPile
                 /\ gameState'.aiHand =
                      SubSeq(hand, 1, i - 1) \o SubSeq(hand, i + 1, Len(hand))
                 /\ gameState'.deck = gameState.deck
                 /\ gameState'.playerHand = gameState.playerHand
                 /\ (\E j \in 1..Len(hand) : validNonEight(j))
                    => /\ validNonEight(i)
                       /\ \A j \in 1..(i - 1) : ~validNonEight(j)]_vars

\* C14 witness: after the player forfeited the first turn, the computer,
\* holding an 8 and a valid non-8, has played the non-8 and kept the 8.
C14_Witness ==
  /\ gameState.status = "player_turn"
  /\ gameState.deck = <<>>
  /\ Len(gameState.discardPile) = 2
  /\ TopDiscard.rank # "8"
  /\ Len(gameState.playerHand) = WideDeal
  /\ Len(gameState.aiHand) = WideDeal - 1
  /\ \E i \in 1..Len(gameState.aiHand) : gameState.aiHand[i].rank = "8"

\* C15: when the computer plays an 8, currentRank becomes 8 and the new
\* currentSuit is hearts if no card remains in aiHand, and otherwise a suit
\* of highest count among the remaining cards, the first such suit met in
\* hand order.
C15_AiSuitChoice ==
  [][\A c \in TableCards :
       (AiPlayed(c) /\ c.rank = "8")
       => LET rest == SelectSeq(gameState.aiHand, LAMBDA x : x # c)
              count(s) == Cardinality({i \in 1..Len(rest) : rest[i].suit = s})
          IN  /\ gameState'.currentRank = "8"
              /\ rest = <<>> => gameState'.currentSuit = "hearts"
              /\ rest # <<>> =>
                   \E i \in 1..Len(rest) :
                     /\ gameState'.currentSuit = rest[i].suit
                     /\ \A j \in 1..Len(rest) :
                          count(rest[j].suit) <= count(rest[i].suit)
                     /\ \A j \in 1..(i - 1) :
                          count(rest[j].suit) < count(rest[i].suit)]_vars

\* C15 witness: the computer has played an 8 and is left with three cards,
\* the first of one suit and the other two of another; the target suit is
\* that of the two.
C15_Witness ==
  /\ gameState.status = "player_turn"
  /\ Len(gameState.discardPile) = 2
  /\ TopDiscard.rank = "8"
  /\ Len(gameState.aiHand) = 3
  /\ gameState.aiHand[1].suit # gameState.aiHand[2].suit
  /\ gameState.aiHand[2].suit = gameState.aiHand[3].suit
  /\ gameState.currentSuit = gameState.aiHand[2].suit
  /\ gameState.currentRank = "8"

\* C16: when no card of aiHand is valid and the deck is not empty, the
\* computer-turn resolution moves the last card of deck to the end of aiHand
\* and plays nothing; the status stays ai_turn, with a new resolution
\* scheduled, exactly when the drawn card is valid against the target, and
\* is player_turn otherwise; a resolution from a state where a card of
\* aiHand is valid, as after such a draw, plays a card and draws nothing.
C16_AiDraw ==
  [][(gameState.status = "ai_turn" /\ AiTurn)
     => LET hand == gameState.aiHand
            deck == gameState.deck
            ok(c) == \/ c.rank = "8"
                     \/ c.suit = gameState.currentSuit
                     \/ c.rank = gameState.currentRank
        IN  /\ ((\A i \in 1..Len(hand) : ~ok(hand[i])) /\ deck # <<>>)
               => /\ gameState'.deck = SubSeq(deck, 1, Len(deck) - 1)
                  /\ gameState'.aiHand = hand \o <<deck[Len(deck)]>>
                  /\ gameState'.discardPile = gameState.discardPile
                  /\ gameState'.playerHand = gameState.playerHand
                  /\ gameState'.currentSuit = gameState.currentSuit
                  /\ gameState'.currentRank = gameState.currentRank
                  /\ gameState'.winner = gameState.winner
                  /\ gameState'.status =
                       IF ok(deck[Len(deck)]) THEN "ai_turn" ELSE "player_turn"
                  /\ ok(deck[Len(deck)]) => timer' = gameState'
            /\ (\E i \in 1..Len(hand) : ok(hand[i]))
               => /\ Len(gameState'.discardPile) = Len(gameState.discardPile) + 1
                  /\ Len(gameState'.aiHand) = Len(hand) - 1
                  /\ gameState'.deck = deck]_vars

\* C16 witness: after the player's first card the computer, with no valid
\* card, has drawn a valid one: it is the computer's turn again.
C16_Witness ==
  /\ gameState.status = "ai_turn"
  /\ timer = gameState
  /\ Len(gameState.discardPile) = 2
  /\ Len(gameState.deck) = NumCards - 2 * DealSize - 2
  /\ Len(gameState.aiHand) = DealSize + 1
  /\ \A i \in 1..DealSize :
       ~isValidMove(gameState.aiHand[i], gameState.currentSuit,
                    gameState.currentRank)
  /\ isValidMove(gameState.aiHand[DealSize + 1], gameState.currentSuit,
                 gameState.currentRank)

\* The step changes nothing of gameState but its status.
OnlyStatusChanges ==
  gameState' = [gameState EXCEPT !.status = gameState'.status]

\* C17: forfeits change only the turn: with an empty deck, a draw in
\* player_turn gives ai_turn and a computer-turn resolution with no valid card
\* gives player_turn, and in both cases deck, discardPile, playerHand, aiHand,
\* currentSuit, currentRank and winner are unchanged.
C17_Forfeits ==
  [][/\ (gameState.status = "player_turn" /\ gameState.deck = <<>> /\ handleDraw)
        => /\ gameState'.status = "ai_turn"
           /\ OnlyStatusChanges
     /\ (/\ gameState.status = "ai_turn"
         /\ gameState.deck = <<>>
         /\ \A i \in 1..Len(gameState.aiHand) :
              ~isValidMove(gameState.aiHand[i], gameState.currentSuit,
                           gameState.currentRank)
         /\ AiTurn)
        => /\ gameState'.status = "player_turn"
           /\ OnlyStatusChanges]_vars

\* C17 witness: the deck is empty, the player's 8 is on top with the suit
\* the player chose, and the computer, whose one card is not valid, has
\* forfeited: it is the player's turn.
C17_Witness ==
  /\ gameState.status = "player_turn"
  /\ gameState.winner = "null"
  /\ gameState.deck = <<>>
  /\ TopDiscard.rank = "8"
  /\ gameState.currentRank = "8"
  /\ Len(gameState.aiHand) = DealSize
  /\ \A i \in 1..Len(gameState.aiHand) :
       ~isValidMove(gameState.aiHand[i], gameState.currentSuit,
                    gameState.currentRank)

\* C18: in every state with status selecting_suit there is a pending wild
\* card, it is of rank 8, it is the head of discardPile and it is not in
\* playerHand.
C18_PendingEight ==
  gameState.status = "selecting_suit"
  => /\ pendingEight # NoCard
     /\ pendingEight.rank = "8"
     /\ gameState.discardPile # <<>>
     /\ pendingEight = gameState.discardPile[1]
     /\ \A i \in 1..Len(gameState.playerHand) :
          gameState.playerHand[i] # pendingEight

\* C18 witness: the player, holding another card, has played an 8 and has
\* not chosen the suit yet.
C18_Witness ==
  /\ gameState.status = "selecting_suit"
  /\ pendingEight.rank = "8"
  /\ Len(gameState.discardPile) = 2
  /\ Len(gameState.playerHand) = DealSize

\* A resolution is pending exactly when the status is ai_turn, and it is the
\* resolution of the current gameState.
TimerIsCurrent ==
  timer = IF gameState.status = "ai_turn" THEN gameState ELSE NullState

\* C19: each snapshot with status ai_turn is resolved at most once and only
\* while it is the current one: the pending resolution is always that of the
\* current gameState and none is pending outside ai_turn, and every
\* resolution step replaces gameState and with it the pending resolution.
C19_ResolvedOnceWhileCurrent ==
  /\ []TimerIsCurrent
  /\ [][AiTurn => /\ gameState.status = "ai_turn"
                  /\ timer = gameState
                  /\ gameState' # gameState
                  /\ timer' # timer]_vars

\* C19 witness: the computer has resolved its turn by playing its last card;
\* the game is over and no resolution is pending.
C19_Witness ==
  /\ gameState.status = "game_over"
  /\ gameState.winner = "ai"
  /\ gameState.aiHand = <<>>
  /\ gameState.playerHand # <<>>
  /\ timer = NullState

\* C20: in every state with status player_turn, ai_turn or game_over the
\* target agrees with the top discard: if the head of discardPile is not an
\* 8, currentSuit and currentRank are its suit and rank, and currentRank is 8
\* only if the head of discardPile is an 8.
C20_TargetAgreesWithTop ==
  gameState.status \in {"player_turn", "ai_turn", "game_over"}
  => /\ TopDiscard.rank # "8"
        => /\ gameState.currentSuit = TopDiscard.suit
           /\ gameState.currentRank = TopDiscard.rank
     /\ gameState.currentRank = "8" => TopDiscard.rank = "8"

\* The deck is empty and neither hand holds a card that is valid against
\* the target, in one of the two turns.
Stalemate ==
  /\ gameState.status \in {"player_turn", "ai_turn"}
  /\ gameState.deck = <<>>
  /\ \A i \in 1..Len(gameState.playerHand) :
       ~isValidMove(gameState.playerHand[i], gameState.currentSuit,
                    gameState.currentRank)
  /\ \A i \in 1..Len(gameState.aiHand) :
       ~isValidMove(gameState.aiHand[i], gameState.currentSuit,
                    gameState.currentRank)

\* C21: the game need not end: from a state with an empty deck and no valid
\* card in either hand, every step that is not a restart leaves deck,
\* discardPile, both hands and the target unchanged and only passes the turn
\* between player_turn and ai_turn, so the same holds in the next state and
\* game_over is never reached.
C21_StalemateForever ==
  [][(Stalemate /\ ~(\E d \in Shuffles : initGame(d, DealSize)))
     => /\ gameState'.deck = gameState.deck
        /\ gameState'.discardPile = gameState.discardPile
        /\ gameState'.playerHand = gameState.playerHand
        /\ gameState'.aiHand = gameState.aiHand
        /\ gameState'.currentSuit = gameState.currentSuit
        /\ gameState'.currentRank = gameState.currentRank
        /\ gameState'.winner = gameState.winner
        /\ gameState'.status \in {"player_turn", "ai_turn"} \ {gameState.status}]_vars
====
